---- MODULE Spec2Model ----
(***************************************************************************)
(* Model of the tile-set compiler of chickpea_tiles (src/chickpea_tiles/   *)
(* src/lib.rs): TileSetModule::num_tiles, TileSetCursor::new / add_tile,   *)
(* compile_tile_set_module, load_tile_sources, compile_floor_sets and      *)
(* compile_wall_sets.                                                      *)
(*                                                                         *)
(* One behaviour of Spec is one call of compile_tile_set_module on a       *)
(* module document chosen in Init; SpecRerun lets the caller compile the   *)
(* same input a second time.  File and image I/O may fail at every point   *)
(* where the code has a try!.  Pixels of a source image are modelled as    *)
(* pairwise distinct values, so that every copy into the atlas can be      *)
(* traced back to the source pixel it came from.  Source images are large  *)
(* enough to contain every tile the module names.  All numbers stay far    *)
(* below 2^32 within the bounds, so u32 arithmetic never wraps here.       *)
(***************************************************************************)
EXTENDS Integers, Sequences, FiniteSets, TLC

(***************************************************************************)
(* Bounds of the model and the small sets the inputs are drawn from.       *)
(***************************************************************************)
\* most floor sets plus wall sets in one module
MaxItems == 3
\* most floor sources plus wall sources in one module
MaxGroups == 2

\* the tile sources the module declares, and the names groups may refer to
DeclaredSources == {"s"}
SourceRefs == {"s", "nope"}
\* the floor sets / wall sets a group may list (identifier, location)
ItemChoices ==
    { [identifier |-> "a", location |-> <<0, 0>>],
      [identifier |-> "b", location |-> <<1, 2>>] }
\* module.out_tile_set_path and module.out_image_path
OutTileSetPath == "out.json"
OutImagePath == "out.png"
\* module.tile_size (width, height)
TileSizes == { <<2, 1>> }

(***************************************************************************)
(* Program constants.                                                      *)
(***************************************************************************)
TILES_IN_FLOOR_SET == 16
TILES_IN_WALL_SET == 13

\* Error values (enum Error): Msg(..) carries the message, the others the
\* library error; the suffix names the try! that produced it.
ErrOpenModule == "IOError: File::open(module_src)"
ErrParseModule == "JsonError: from_reader"
ErrOpenImage == "ImageError: image::open"
ErrMissingSource == "Msg: missing tile_source"
ErrNoFit == "Msg: couldn't fit tile into image"
ErrCreateTileSet == "IOError: File::create(out_tile_set_path)"
ErrWriteTileSet == "JsonError: to_writer"
ErrCreateImage == "IOError: File::create(out_image_path)"
ErrSaveImage == "ImageError: img.save"
AssertFailed == "panic: assertion failed: root * root > total_tiles"
Ok == "Ok"
Running == "running"

(***************************************************************************)
(* Input modules.                                                          *)
(***************************************************************************)
RECURSIVE SeqsUpTo(_, _)
SeqsUpTo(S, n) ==
    IF n = 0 THEN { <<>> }
    ELSE LET shorter == SeqsUpTo(S, n - 1)
         IN  shorter \cup { Append(s, x) : s \in { t \in shorter : Len(t) = n - 1 }, x \in S }

RECURSIVE SumLens(_)
SumLens(lists) ==
    IF lists = <<>> THEN 0 ELSE Len(Head(lists)) + SumLens(Tail(lists))

\* lists of at most g item lists holding at most t items together
RECURSIVE ItemListLists(_, _)
ItemListLists(g, t) ==
    IF g = 0 THEN { <<>> }
    ELSE { <<>> } \cup
         UNION { { <<items>> \o rest : rest \in ItemListLists(g - 1, t - Len(items)) }
                 : items \in SeqsUpTo(ItemChoices, t) }

FloorSources(lists) ==
    { [i \in 1..Len(lists) |-> [tile_source |-> refs[i], floor_sets |-> lists[i]]]
        : refs \in [1..Len(lists) -> SourceRefs] }

WallSources(lists) ==
    { [i \in 1..Len(lists) |-> [tile_source |-> refs[i], wall_sets |-> lists[i]]]
        : refs \in [1..Len(lists) -> SourceRefs] }

\* the module document with these floor sources and wall sources
Module(ts, f, w) ==
    [ identifier |-> "tiles",
      tile_size |-> ts,
      out_tile_set_path |-> OutTileSetPath,
      out_image_path |-> OutImagePath,
      tile_sources |-> DeclaredSources,
      floor_sources |-> f,
      wall_sources |-> w ]

(***************************************************************************)
(* TileSetModule::num_tiles and the atlas side.                            *)
(***************************************************************************)
RECURSIVE FloorTiles(_)
FloorTiles(floor_sources) ==
    IF floor_sources = <<>> THEN 0
    ELSE Len(Head(floor_sources).floor_sets) * TILES_IN_FLOOR_SET
         + FloorTiles(Tail(floor_sources))

\* WallSource::num_tiles with a slip: the floor constant in place of the wall one
RECURSIVE WallTiles_AsFloor(_)
WallTiles_AsFloor(wall_sources) ==
    IF wall_sources = <<>> THEN 0
    ELSE Len(Head(wall_sources).wall_sets) * TILES_IN_FLOOR_SET
         + WallTiles_AsFloor(Tail(wall_sources))

RECURSIVE WallTiles(_)
WallTiles(wall_sources) ==
    IF wall_sources = <<>> THEN 0
    ELSE Len(Head(wall_sources).wall_sets) * TILES_IN_WALL_SET
         + WallTiles(Tail(wall_sources))

\* num_tiles with a slip: the wall sources are left out of the sum
NumTiles_FloorsOnly(m) == FloorTiles(m.floor_sources)

NumTiles(m) == FloorTiles(m.floor_sources) + WallTiles(m.wall_sources)

\* (n as f64).sqrt().floor() as u32
ISqrt(n) == CHOOSE r \in 0..n : r * r <= n /\ (r + 1) * (r + 1) > n

Root(total_tiles) == ISqrt(total_tiles) + 1

(***************************************************************************)
(* Images.  A pixel is <<image name, x, y>>; the atlas starts blank.       *)
(***************************************************************************)
Blank == <<"", 0, 0>>

SourcePixel(from, x, y) == <<from, x, y>>

\* DynamicImage::new_rgba8(width, height)
NewImage(width, height) ==
    [ width |-> width, height |-> height,
      px |-> [p \in (0..(width - 1)) \X (0..(height - 1)) |-> Blank] ]

\* from.sub_image(x, y, w, h): a view, no pixel is read yet
SubImage(from, x, y, w, h) == [from |-> from, x |-> x, y |-> y, w |-> w, h |-> h]

\* img.copy_from(&sub, at.0, at.1): false and no write when sub does not
\* fit at `at`, otherwise every pixel of sub is written and true returned
CopyFrom(img, sub, at) ==
    IF img.width < sub.w + at[1] \/ img.height < sub.h + at[2]
    THEN [ok |-> FALSE, img |-> img]
    ELSE [ok |-> TRUE,
          img |-> [img EXCEPT !.px =
                     [p \in (at[1]..(at[1] + sub.w - 1)) \X (at[2]..(at[2] + sub.h - 1)) |->
                        SourcePixel(sub.from, sub.x + (p[1] - at[1]),
                                              sub.y + (p[2] - at[2]))]
                     @@ img.px]]

(***************************************************************************)
(* TileSetCursor.                                                          *)
(***************************************************************************)
TileSetCursorNew(dimensions, tile_size) ==
    [ img |-> NewImage(dimensions[1], dimensions[2]),
      loc |-> <<0, 0>>,
      tile_size |-> tile_size ]

\* add_tile with a slip: the wrap resets x but leaves y where it was
AddTile_NoRowAdvance(c, from, tile_coordinates) ==
    LET width == c.img.width
        x == tile_coordinates[1] * c.tile_size[1]
        y == tile_coordinates[2] * c.tile_size[2]
        sub == SubImage(from, x, y, c.tile_size[1], c.tile_size[2])
        copy == CopyFrom(c.img, sub, c.loc)
        loc0 == c.loc[1] + c.tile_size[1]
        loc == IF loc0 + c.tile_size[1] > width
               THEN <<0, c.loc[2]>>
               ELSE <<loc0, c.loc[2]>>
    IN  [ cursor |-> [c EXCEPT !.img = copy.img, !.loc = loc],
          ok |-> copy.ok,
          value |-> loc,
          call |-> [from |-> from, tile |-> tile_coordinates, at |-> c.loc,
                    ok |-> copy.ok, value |-> loc] ]

\* add_tile with a slip: the wrap test uses >= and gives up the last column
AddTile_WrapEarly(c, from, tile_coordinates) ==
    LET width == c.img.width
        x == tile_coordinates[1] * c.tile_size[1]
        y == tile_coordinates[2] * c.tile_size[2]
        sub == SubImage(from, x, y, c.tile_size[1], c.tile_size[2])
        copy == CopyFrom(c.img, sub, c.loc)
        loc0 == c.loc[1] + c.tile_size[1]
        loc == IF loc0 + c.tile_size[1] >= width
               THEN <<0, c.loc[2] + c.tile_size[2]>>
               ELSE <<loc0, c.loc[2]>>
    IN  [ cursor |-> [c EXCEPT !.img = copy.img, !.loc = loc],
          ok |-> copy.ok,
          value |-> loc,
          call |-> [from |-> from, tile |-> tile_coordinates, at |-> c.loc,
                    ok |-> copy.ok, value |-> loc] ]

\* add_tile with a slip: x advances by the tile height instead of the tile width
AddTile_StepByHeight(c, from, tile_coordinates) ==
    LET width == c.img.width
        x == tile_coordinates[1] * c.tile_size[1]
        y == tile_coordinates[2] * c.tile_size[2]
        sub == SubImage(from, x, y, c.tile_size[1], c.tile_size[2])
        copy == CopyFrom(c.img, sub, c.loc)
        loc0 == c.loc[1] + c.tile_size[2]
        loc == IF loc0 + c.tile_size[1] > width
               THEN <<0, c.loc[2] + c.tile_size[2]>>
               ELSE <<loc0, c.loc[2]>>
    IN  [ cursor |-> [c EXCEPT !.img = copy.img, !.loc = loc],
          ok |-> copy.ok,
          value |-> loc,
          call |-> [from |-> from, tile |-> tile_coordinates, at |-> c.loc,
                    ok |-> copy.ok, value |-> loc] ]

\* One call of add_tile.  cursor: the cursor after the call; ok/value: the
\* Result returned; at: where copy_from was asked to write (the log entry).
AddTile(c, from, tile_coordinates) ==
    LET width == c.img.width
        x == tile_coordinates[1] * c.tile_size[1]
        y == tile_coordinates[2] * c.tile_size[2]
        sub == SubImage(from, x, y, c.tile_size[1], c.tile_size[2])
        copy == CopyFrom(c.img, sub, c.loc)
        loc0 == c.loc[1] + c.tile_size[1]
        loc == IF loc0 + c.tile_size[1] > width
               THEN <<0, c.loc[2] + c.tile_size[2]>>
               ELSE <<loc0, c.loc[2]>>
    IN  [ cursor |-> [c EXCEPT !.img = copy.img, !.loc = loc],
          ok |-> copy.ok,
          value |-> loc,
          call |-> [from |-> from, tile |-> tile_coordinates, at |-> c.loc,
                    ok |-> copy.ok, value |-> loc] ]

\* The chain of try!(cursor.add_tile(&mut image, (x + dx, y + dy))) of one
\* set: the calls are made in order and the first Err ends the chain.
RECURSIVE AddTiles(_, _, _, _, _, _)
AddTiles(c, from, origin, offsets, values, calls) ==
    IF offsets = <<>>
    THEN [cursor |-> c, ok |-> TRUE, values |-> values, calls |-> calls]
    ELSE LET off == Head(offsets)
             r == AddTile(c, from, <<origin[1] + off[1], origin[2] + off[2]>>)
         IN  IF r.ok
             THEN AddTiles(r.cursor, from, origin, Tail(offsets),
                           Append(values, r.value), Append(calls, r.call))
             ELSE [cursor |-> r.cursor, ok |-> FALSE, values |-> values,
                   calls |-> Append(calls, r.call)]

\* compile_floor_sets: the offsets of the 16 calls, in call order
\* n7 n8 n9 tb_top closed n4 n5 n6 tb_mid lr_left lr_mid lr_right n1 n2 n3 tb_bot
FloorOffsets ==
    << <<0, 0>>, <<1, 0>>, <<2, 0>>, <<3, 0>>, <<5, 0>>,
       <<0, 1>>, <<1, 1>>, <<2, 1>>, <<3, 1>>, <<4, 1>>, <<5, 1>>, <<6, 1>>,
       <<0, 2>>, <<1, 2>>, <<2, 2>>, <<3, 2>> >>

\* for each field of CompiledFloorSet, the calls whose results it holds
FloorSlots ==
    [ numpad |-> <<13, 14, 15, 6, 7, 8, 1, 2, 3>>,
      top_bottom |-> <<4, 9, 16>>,
      left_right |-> <<10, 11, 12>>,
      closed_center |-> <<5>> ]

CompiledFloorSet(v) ==
    [ numpad |-> [i \in 1..9 |-> v[FloorSlots.numpad[i]]],
      top_bottom |-> [i \in 1..3 |-> v[FloorSlots.top_bottom[i]]],
      left_right |-> [i \in 1..3 |-> v[FloorSlots.left_right[i]]],
      closed_center |-> v[FloorSlots.closed_center[1]] ]

\* compile_wall_sets: the offsets of the 13 calls, in call order
\* c3 c4 c5 w x1 c2 cp x2 x3 x4 c1 c6 x5
WallOffsets ==
    << <<0, 0>>, <<1, 0>>, <<2, 0>>, <<3, 0>>, <<4, 0>>,
       <<0, 1>>, <<1, 1>>, <<3, 1>>, <<4, 1>>, <<5, 1>>,
       <<0, 2>>, <<2, 2>>, <<4, 2>> >>

WallSlots ==
    [ circle |-> <<11, 6, 1, 2, 3, 12>>,
      center_point |-> <<7>>,
      wall |-> <<4>>,
      cross |-> <<5, 8, 9, 10, 13>> ]

CompiledWallSet(v) ==
    [ circle |-> [i \in 1..6 |-> v[WallSlots.circle[i]]],
      center_point |-> v[WallSlots.center_point[1]],
      wall |-> v[WallSlots.wall[1]],
      cross |-> [i \in 1..5 |-> v[WallSlots.cross[i]]] ]

\* HashMap::insert: a later value replaces an earlier one under the same key
Insert(hmap, key, value) ==
    [k \in DOMAIN hmap \cup {key} |-> IF k = key THEN value ELSE hmap[k]]

\* get_mut with a slip: an unknown name falls back to some loaded image
GetMut_Default(imgs, name) ==
    IF name \in imgs THEN <<name>> ELSE <<CHOOSE n \in imgs : TRUE>>

\* images.get_mut(name): Some(image) as <<name>>, None as <<>>
GetMut(imgs, name) == IF name \in imgs THEN <<name>> ELSE <<>>

\* the orders in which iterating a HashMap with these keys can yield them
IterOrders(keys) ==
    { o \in [1..Cardinality(keys) -> keys] : \A i, j \in DOMAIN o : i # j => o[i] # o[j] }

\* to_writer with a slip: one namespace of identifiers for both formats, a
\* wall set taking the entry of the floor set with the same identifier
Serialize_OneNamespace(m, floors, walls, floor_order, wall_order) ==
    [ identifier |-> m.identifier,
      tile_size |-> m.tile_size,
      image_path |-> m.out_image_path,
      floor_sets |-> [i \in DOMAIN floor_order |->
                        [key |-> floor_order[i], value |-> floors[floor_order[i]]]],
      wall_sets |-> [i \in DOMAIN wall_order |->
                        [key |-> wall_order[i],
                         value |-> IF wall_order[i] \in DOMAIN floors
                                   THEN floors[wall_order[i]]
                                   ELSE walls[wall_order[i]]]] ]

\* serde_json::ser::to_writer(&compiled_tile_set): fields in declaration
\* order, the entries of each map in the map's iteration order
Serialize(m, floors, walls, floor_order, wall_order) ==
    [ identifier |-> m.identifier,
      tile_size |-> m.tile_size,
      image_path |-> m.out_image_path,
      floor_sets |-> [i \in DOMAIN floor_order |->
                        [key |-> floor_order[i], value |-> floors[floor_order[i]]]],
      wall_sets |-> [i \in DOMAIN wall_order |->
                        [key |-> wall_order[i], value |-> walls[wall_order[i]]]] ]

(***************************************************************************)
(* State.                                                                  *)
(***************************************************************************)
VARIABLES
    module,       \* the module document at module_src
    pc,           \* where compile_tile_set_module stands
    images,       \* load_tile_sources: identifiers of the loaded images
    gi, si,       \* the source and the set the loops stand at (si = 0: lookup)
    image,        \* the image the current source resolved to
    cursor,       \* tile_set_cursor
    floor_sets,   \* hmap of compile_floor_sets
    wall_sets,    \* hmap of compile_wall_sets
    placements,   \* log of the add_tile calls of this compile
    result,       \* the TileSetResult returned, Running until then
    fs,           \* the files at the two output paths
    written,      \* the output paths this compile created or wrote
    run,          \* 1, or 2 for a second compile of the same input
    first,        \* <<artifacts>> of the first compile once it succeeded
    sizing        \* total_tiles and root as u32 values, and the build profile

vars == <<module, pc, images, gi, si, image, cursor, floor_sets, wall_sets,
          placements, result, fs, written, run, first, sizing>>

OutPaths == {OutTileSetPath, OutImagePath}

Absent == [state |-> "absent", data |-> <<>>]
Created == [state |-> "empty", data |-> <<>>]
Partial == [state |-> "partial", data |-> <<>>]
Complete(content) == [state |-> "complete", data |-> <<content>>]

\* the sizing arithmetic is followed at u32 width in SpecRoot only
NoSizing == <<>>

NoCursor == TileSetCursorNew(<<0, 0>>, <<0, 0>>)

Init ==
    /\ \E fl \in ItemListLists(MaxGroups, MaxItems) :
       \E wl \in ItemListLists(MaxGroups - Len(fl), MaxItems - SumLens(fl)) :
       \E ts \in TileSizes, f \in FloorSources(fl), w \in WallSources(wl) :
         module = Module(ts, f, w)
    /\ pc = "load_module"
    /\ images = {}
    /\ gi = 0 /\ si = 0
    /\ image = ""
    /\ cursor = NoCursor
    /\ floor_sets = <<>>
    /\ wall_sets = <<>>
    /\ placements = <<>>
    /\ result = Running
    /\ fs = [p \in OutPaths |-> Absent]
    /\ written = {}
    /\ run = 1
    /\ first = <<>>
    /\ sizing = NoSizing

\* return Err(e) / Ok(())
Return(r) == pc' = "done" /\ result' = r

(***************************************************************************)
(* compile_tile_set_module, one action per step.                           *)
(***************************************************************************)
\* File::open(module_src) and serde_json::de::from_reader
LoadModule ==
    /\ pc = "load_module"
    /\ \E outcome \in {Ok, ErrOpenModule, ErrParseModule} :
         IF outcome = Ok
         THEN pc' = "load_tile_sources" /\ result' = result
         ELSE Return(outcome)
    /\ UNCHANGED <<module, images, gi, si, image, cursor, floor_sets, wall_sets,
                   placements, fs, written, run, first>>
    /\ UNCHANGED sizing

\* load_tile_sources(&module.tile_sources)
LoadTileSources ==
    /\ pc = "load_tile_sources"
    /\ \E opened \in BOOLEAN :
         IF opened
         THEN images' = module.tile_sources /\ pc' = "plan" /\ result' = result
         ELSE images' = images /\ Return(ErrOpenImage)
    /\ UNCHANGED <<module, gi, si, image, cursor, floor_sets, wall_sets,
                   placements, fs, written, run, first>>
    /\ UNCHANGED sizing

\* total_tiles, tile_set_image_size and TileSetCursor::new
Plan ==
    /\ pc = "plan"
    /\ LET total_tiles == NumTiles(module)
           root == Root(total_tiles)
           tile_set_image_size == <<root * module.tile_size[1], root * module.tile_size[2]>>
       IN  IF root * root > total_tiles
           THEN /\ cursor' = TileSetCursorNew(tile_set_image_size, module.tile_size)
                /\ pc' = "floors" /\ gi' = 1 /\ si' = 0
                /\ result' = result
           ELSE /\ Return(AssertFailed)
                /\ UNCHANGED <<cursor, gi, si>>
    /\ UNCHANGED <<module, images, image, floor_sets, wall_sets, placements,
                   fs, written, run, first>>
    /\ UNCHANGED sizing

\* compile_floor_sets: images.get_mut(&floor_source.tile_source[..])
FloorSourceLookup ==
    /\ pc = "floors" /\ gi <= Len(module.floor_sources) /\ si = 0
    /\ LET floor_source == module.floor_sources[gi]
           found == GetMut(images, floor_source.tile_source)
       IN  IF found = <<>>
           THEN Return(ErrMissingSource) /\ UNCHANGED <<image, gi, si>>
           ELSE /\ image' = found[1]
                /\ IF floor_source.floor_sets = <<>>
                   THEN gi' = gi + 1 /\ si' = 0
                   ELSE gi' = gi /\ si' = 1
                /\ UNCHANGED <<pc, result>>
    /\ UNCHANGED <<module, images, cursor, floor_sets, wall_sets, placements,
                   fs, written, run, first>>
    /\ UNCHANGED sizing

\* compile_floor_sets: the body of the loop over floor_source.floor_sets
CompileFloorSet ==
    /\ pc = "floors" /\ gi <= Len(module.floor_sources) /\ si >= 1
    /\ LET floor_source == module.floor_sources[gi]
           floor_set == floor_source.floor_sets[si]
       IN  \E r \in { AddTiles(cursor, image, floor_set.location, FloorOffsets, <<>>, <<>>) } :
           /\ cursor' = r.cursor
           /\ placements' = placements \o r.calls
           /\ IF r.ok
              THEN /\ floor_sets' = Insert(floor_sets, floor_set.identifier,
                                           CompiledFloorSet(r.values))
                   /\ IF si < Len(floor_source.floor_sets)
                      THEN gi' = gi /\ si' = si + 1
                      ELSE gi' = gi + 1 /\ si' = 0
                   /\ UNCHANGED <<pc, result>>
              ELSE Return(ErrNoFit) /\ UNCHANGED <<floor_sets, gi, si>>
    /\ UNCHANGED <<module, images, image, wall_sets, fs, written, run, first>>
    /\ UNCHANGED sizing

\* compile_floor_sets returns Ok(hmap); compile_wall_sets starts
ReturnFloorSets ==
    /\ pc = "floors" /\ gi > Len(module.floor_sources)
    /\ pc' = "walls" /\ gi' = 1 /\ si' = 0
    /\ UNCHANGED <<module, images, image, cursor, floor_sets, wall_sets,
                   placements, result, fs, written, run, first>>
    /\ UNCHANGED sizing

\* compile_wall_sets: images.get_mut(&wall_source.tile_source[..])
WallSourceLookup ==
    /\ pc = "walls" /\ gi <= Len(module.wall_sources) /\ si = 0
    /\ LET wall_source == module.wall_sources[gi]
           found == GetMut(images, wall_source.tile_source)
       IN  IF found = <<>>
           THEN Return(ErrMissingSource) /\ UNCHANGED <<image, gi, si>>
           ELSE /\ image' = found[1]
                /\ IF wall_source.wall_sets = <<>>
                   THEN gi' = gi + 1 /\ si' = 0
                   ELSE gi' = gi /\ si' = 1
                /\ UNCHANGED <<pc, result>>
    /\ UNCHANGED <<module, images, cursor, floor_sets, wall_sets, placements,
                   fs, written, run, first>>
    /\ UNCHANGED sizing

\* compile_wall_sets: the body of the loop over wall_source.wall_sets
CompileWallSet ==
    /\ pc = "walls" /\ gi <= Len(module.wall_sources) /\ si >= 1
    /\ LET wall_source == module.wall_sources[gi]
           wall_set == wall_source.wall_sets[si]
       IN  \E r \in { AddTiles(cursor, image, wall_set.location, WallOffsets, <<>>, <<>>) } :
           /\ cursor' = r.cursor
           /\ placements' = placements \o r.calls
           /\ IF r.ok
              THEN /\ wall_sets' = Insert(wall_sets, wall_set.identifier,
                                          CompiledWallSet(r.values))
                   /\ IF si < Len(wall_source.wall_sets)
                      THEN gi' = gi /\ si' = si + 1
                      ELSE gi' = gi + 1 /\ si' = 0
                   /\ UNCHANGED <<pc, result>>
              ELSE Return(ErrNoFit) /\ UNCHANGED <<wall_sets, gi, si>>
    /\ UNCHANGED <<module, images, image, floor_sets, fs, written, run, first>>
    /\ UNCHANGED sizing

\* compile_wall_sets returns Ok(hmap); compiled_tile_set is built
ReturnWallSets ==
    /\ pc = "walls" /\ gi > Len(module.wall_sources)
    /\ pc' = "create_tile_set" /\ gi' = 0 /\ si' = 0
    /\ UNCHANGED <<module, images, image, cursor, floor_sets, wall_sets,
                   placements, result, fs, written, run, first>>
    /\ UNCHANGED sizing

\* File::create(&module.out_tile_set_path): creates or truncates the file
CreateTileSetFile ==
    /\ pc = "create_tile_set"
    /\ \E created \in BOOLEAN :
         IF created
         THEN /\ fs' = [fs EXCEPT ![module.out_tile_set_path] = Created]
              /\ written' = written \cup {module.out_tile_set_path}
              /\ pc' = "write_tile_set" /\ result' = result
         ELSE Return(ErrCreateTileSet) /\ UNCHANGED <<fs, written>>
    /\ UNCHANGED <<module, images, gi, si, image, cursor, floor_sets, wall_sets,
                   placements, run, first>>
    /\ UNCHANGED sizing

\* serde_json::ser::to_writer(&mut buffer, &compiled_tile_set)
WriteTileSet ==
    /\ pc = "write_tile_set"
    /\ \E wrote \in BOOLEAN :
       \E floor_order \in IterOrders(DOMAIN floor_sets) :
       \E wall_order \in IterOrders(DOMAIN wall_sets) :
         IF wrote
         THEN /\ fs' = [fs EXCEPT ![module.out_tile_set_path] =
                          Complete(Serialize(module, floor_sets, wall_sets,
                                             floor_order, wall_order))]
              /\ pc' = "create_image" /\ result' = result
         ELSE /\ fs' = [fs EXCEPT ![module.out_tile_set_path] = Partial]
              /\ Return(ErrWriteTileSet)
    /\ UNCHANGED <<module, images, gi, si, image, cursor, floor_sets, wall_sets,
                   placements, written, run, first>>
    /\ UNCHANGED sizing

\* File::create(&module.out_image_path)
CreateImageFile ==
    /\ pc = "create_image"
    /\ \E created \in BOOLEAN :
         IF created
         THEN /\ fs' = [fs EXCEPT ![module.out_image_path] = Created]
              /\ written' = written \cup {module.out_image_path}
              /\ pc' = "save_image" /\ result' = result
         ELSE Return(ErrCreateImage) /\ UNCHANGED <<fs, written>>
    /\ UNCHANGED <<module, images, gi, si, image, cursor, floor_sets, wall_sets,
                   placements, run, first>>
    /\ UNCHANGED sizing

\* tile_set_cursor.img.save(&mut buffer, ImageFormat::PNG), then Ok(())
SaveImage ==
    /\ pc = "save_image"
    /\ \E saved \in BOOLEAN :
         IF saved
         THEN /\ fs' = [fs EXCEPT ![module.out_image_path] = Complete(cursor.img)]
              /\ Return(Ok)
         ELSE /\ fs' = [fs EXCEPT ![module.out_image_path] = Partial]
              /\ Return(ErrSaveImage)
    /\ UNCHANGED <<module, images, gi, si, image, cursor, floor_sets, wall_sets,
                   placements, written, run, first>>
    /\ UNCHANGED sizing

Next ==
    \/ LoadModule
    \/ LoadTileSources
    \/ Plan
    \/ FloorSourceLookup
    \/ CompileFloorSet
    \/ ReturnFloorSets
    \/ WallSourceLookup
    \/ CompileWallSet
    \/ ReturnWallSets
    \/ CreateTileSetFile
    \/ WriteTileSet
    \/ CreateImageFile
    \/ SaveImage

Spec == Init /\ [][Next]_vars

(***************************************************************************)
(* A second compile of the same module and the same source images, made    *)
(* by the caller after the first one returned Ok(()); the files of the     *)
(* first compile are still in place.                                       *)
(***************************************************************************)
Recompile ==
    /\ pc = "done" /\ result = Ok /\ run = 1
    /\ first' = << [ tile_set |-> fs[module.out_tile_set_path].data[1],
                     image |-> fs[module.out_image_path].data[1] ] >>
    /\ run' = 2
    /\ pc' = "load_module"
    /\ images' = {}
    /\ gi' = 0 /\ si' = 0
    /\ image' = ""
    /\ cursor' = NoCursor
    /\ floor_sets' = <<>>
    /\ wall_sets' = <<>>
    /\ placements' = <<>>
    /\ result' = Running
    /\ written' = {}
    /\ UNCHANGED <<module, fs>>
    /\ UNCHANGED sizing

NextRerun ==
    \/ Next
    \/ Recompile

SpecRerun == Init /\ [][NextRerun]_vars

(***************************************************************************)
(* Vocabulary of the properties.                                           *)
(***************************************************************************)
\* the floor sets of all floor sources in list order, each with its source
RECURSIVE FlatFloorSets(_)
FlatFloorSets(floor_sources) ==
    IF floor_sources = <<>> THEN <<>>
    ELSE LET src == Head(floor_sources)
         IN  [i \in DOMAIN src.floor_sets |->
                [from |-> src.tile_source, item |-> src.floor_sets[i]]]
             \o FlatFloorSets(Tail(floor_sources))

RECURSIVE FlatWallSets(_)
FlatWallSets(wall_sources) ==
    IF wall_sources = <<>> THEN <<>>
    ELSE LET src == Head(wall_sources)
         IN  [i \in DOMAIN src.wall_sets |->
                [from |-> src.tile_source, item |-> src.wall_sets[i]]]
             \o FlatWallSets(Tail(wall_sources))

\* the source tiles of a list of sets, set after set, offsets in call order
RECURSIVE TilesOf(_, _)
TilesOf(flat, offsets) ==
    IF flat = <<>> THEN <<>>
    ELSE LET e == Head(flat)
         IN  [i \in DOMAIN offsets |->
                [from |-> e.from,
                 tile |-> <<e.item.location[1] + offsets[i][1],
                            e.item.location[2] + offsets[i][2]>>]]
             \o TilesOf(Tail(flat), offsets)

\* every tile of the module in specification order
TileEnumeration(m) ==
    TilesOf(FlatFloorSets(m.floor_sources), FloorOffsets)
    \o TilesOf(FlatWallSets(m.wall_sources), WallOffsets)

HasDuplicate(flat) ==
    \E i, j \in DOMAIN flat : i # j /\ flat[i].item.identifier = flat[j].item.identifier

HasDuplicateItem(m) ==
    \/ HasDuplicate(FlatFloorSets(m.floor_sources))
    \/ HasDuplicate(FlatWallSets(m.wall_sources))

HasMissingSource(m) ==
    \/ \E i \in DOMAIN m.floor_sources : m.floor_sources[i].tile_source \notin m.tile_sources
    \/ \E i \in DOMAIN m.wall_sources : m.wall_sources[i].tile_source \notin m.tile_sources

\* the tiles of the sources that come before the first unresolved one
RECURSIVE FloorTilesBeforeMissing(_, _)
FloorTilesBeforeMissing(m, i) ==
    IF i > Len(m.floor_sources) \/ m.floor_sources[i].tile_source \notin m.tile_sources
    THEN 0
    ELSE Len(m.floor_sources[i].floor_sets) * Len(FloorOffsets)
         + FloorTilesBeforeMissing(m, i + 1)

RECURSIVE WallTilesBeforeMissing(_, _)
WallTilesBeforeMissing(m, i) ==
    IF i > Len(m.wall_sources) \/ m.wall_sources[i].tile_source \notin m.tile_sources
    THEN 0
    ELSE Len(m.wall_sources[i].wall_sets) * Len(WallOffsets)
         + WallTilesBeforeMissing(m, i + 1)

TilesBeforeMissing(m) ==
    IF \E i \in DOMAIN m.floor_sources : m.floor_sources[i].tile_source \notin m.tile_sources
    THEN FloorTilesBeforeMissing(m, 1)
    ELSE FloorTilesBeforeMissing(m, 1) + WallTilesBeforeMissing(m, 1)

\* the last set with this identifier: the one whose entry the map keeps
LastWith(flat, id) ==
    flat[CHOOSE i \in DOMAIN flat :
           /\ flat[i].item.identifier = id
           /\ \A j \in DOMAIN flat : flat[j].item.identifier = id => j <= i]

Outside == <<"outside", 0, 0>>

\* the tile_size rectangle of img at pixel coordinate `at`
TileAt(img, at, size) ==
    [d \in (0..(size[1] - 1)) \X (0..(size[2] - 1)) |->
       IF <<at[1] + d[1], at[2] + d[2]>> \in DOMAIN img.px
       THEN img.px[<<at[1] + d[1], at[2] + d[2]>>]
       ELSE Outside]

\* the pixels of source tile `tile` of image `from`
SourceTile(from, tile, size) ==
    [d \in (0..(size[1] - 1)) \X (0..(size[2] - 1)) |->
       SourcePixel(from, tile[1] * size[1] + d[1], tile[2] * size[2] + d[2])]

\* the coordinates a compiled set stores, call by call (inverse of the slots)
StoredFloor(c, call) ==
    LET part == CHOOSE f \in DOMAIN FloorSlots :
                  \E i \in DOMAIN FloorSlots[f] : FloorSlots[f][i] = call
        i == CHOOSE i \in DOMAIN FloorSlots[part] : FloorSlots[part][i] = call
    IN  IF part = "closed_center" THEN c.closed_center ELSE c[part][i]

StoredWall(c, call) ==
    LET part == CHOOSE f \in DOMAIN WallSlots :
                  \E i \in DOMAIN WallSlots[f] : WallSlots[f][i] = call
        i == CHOOSE i \in DOMAIN WallSlots[part] : WallSlots[part][i] = call
    IN  IF part \in {"center_point", "wall"} THEN c[part] ELSE c[part][i]

Intersects(a, b, size) ==
    /\ a[1] < b[1] + size[1] /\ b[1] < a[1] + size[1]
    /\ a[2] < b[2] + size[2] /\ b[2] < a[2] + size[2]

\* the error the duplicate check would return
ErrDuplicateItem == "Msg: DuplicateItem"

(***************************************************************************)
(* Properties.                                                             *)
(***************************************************************************)

\* C1: every add_tile call that succeeds returns the pixel coordinate at
\* which it copied the tile, the cursor position before the call advanced it.
C1_ReturnsPlacement ==
    \A k \in DOMAIN placements :
        placements[k].ok => placements[k].value = placements[k].at

\* C2: after a successful compile the tile_size rectangle of the atlas at
\* every stored coordinate of every floor set and wall set of the output
\* holds the pixels of the source tile (location plus offset) of that part.
C2_RoundTrip ==
    (pc = "done" /\ result = Ok) =>
        /\ \A id \in DOMAIN floor_sets :
             LET e == LastWith(FlatFloorSets(module.floor_sources), id)
             IN  \A call \in DOMAIN FloorOffsets :
                   TileAt(cursor.img, StoredFloor(floor_sets[id], call), module.tile_size)
                   = SourceTile(e.from,
                                <<e.item.location[1] + FloorOffsets[call][1],
                                  e.item.location[2] + FloorOffsets[call][2]>>,
                                module.tile_size)
        /\ \A id \in DOMAIN wall_sets :
             LET e == LastWith(FlatWallSets(module.wall_sources), id)
             IN  \A call \in DOMAIN WallOffsets :
                   TileAt(cursor.img, StoredWall(wall_sets[id], call), module.tile_size)
                   = SourceTile(e.from,
                                <<e.item.location[1] + WallOffsets[call][1],
                                  e.item.location[2] + WallOffsets[call][2]>>,
                                module.tile_size)

\* C3: the destination rectangles (copy origin plus tile_size) of any two
\* distinct placements of a compile do not intersect.
C3_NonOverlap ==
    \A k \in DOMAIN placements : \A j \in 1..(k - 1) :
        (placements[j].ok /\ placements[k].ok)
            => ~Intersects(placements[j].at, placements[k].at, module.tile_size)

\* a compile that ended Ok after filling more than one row of the atlas
C3_Witness ==
    /\ pc = "done" /\ result = Ok
    /\ Len(placements) = TILES_IN_FLOOR_SET + TILES_IN_WALL_SET
    /\ \E k \in DOMAIN placements : placements[k].at[2] > 0

\* C4: with the atlas side floor(sqrt(total_tiles)) + 1 no placement of a
\* compile fails: every add_tile call copies its tile and the compile never
\* returns "couldn't fit tile into image".
C4_CapacitySufficient ==
    /\ result # ErrNoFit
    /\ \A k \in DOMAIN placements : placements[k].ok

\* a compile of 48 tiles (one less than a perfect square) that ended Ok
C4_Witness ==
    /\ pc = "done" /\ result = Ok
    /\ NumTiles(module) = 48
    /\ Len(placements) = 48

\* C5: when two sets of one format carry the same identifier the compile
\* fails with DuplicateItem (unless an earlier step failed first) and
\* writes no output artifact.
C5_DuplicateDetected ==
    HasDuplicateItem(module) =>
        /\ written = {}
        /\ pc = "done" =>
             result \in {ErrOpenModule, ErrParseModule, ErrOpenImage,
                         ErrMissingSource, ErrDuplicateItem}

\* C6: whenever the compile returns an error, neither output artifact has
\* been created or overwritten by that run.
C6_NoPartialOutput ==
    (pc = "done" /\ result # Ok) => written = {}

\* C7: a second compile of the same module and images that succeeds leaves
\* the same coordinate-map document (same entries in the same order) and
\* the same atlas image as the first.
C7_Deterministic ==
    (run = 2 /\ pc = "done" /\ result = Ok) =>
        /\ fs[module.out_image_path].data[1] = first[1].image
        /\ fs[module.out_tile_set_path].data[1] = first[1].tile_set

C10_MissingSourceRejected ==
    HasMissingSource(module) =>
        /\ written = {}
        /\ pc \notin {"create_tile_set", "write_tile_set", "create_image", "save_image"}
        /\ (pc = "done" /\ images # {}) =>
             /\ result = ErrMissingSource
             /\ Len(placements) = TilesBeforeMissing(module)

\* a compile that packed a floor source and then met an unresolved wall source
C10_Witness ==
    /\ pc = "done" /\ result = ErrMissingSource
    /\ Len(placements) > 0
    /\ module.wall_sources # <<>>

\* the errors of the I/O steps: they depend on the environment, not the module
IOErrors ==
    {ErrOpenModule, ErrParseModule, ErrOpenImage,
     ErrCreateTileSet, ErrWriteTileSet, ErrCreateImage, ErrSaveImage}

\* the identifiers carried both by a floor set and by a wall set
SharedIds(m) ==
    { id \in { i.identifier : i \in ItemChoices } :
        /\ \E i \in DOMAIN FlatFloorSets(m.floor_sources) :
             FlatFloorSets(m.floor_sources)[i].item.identifier = id
        /\ \E j \in DOMAIN FlatWallSets(m.wall_sources) :
             FlatWallSets(m.wall_sources)[j].item.identifier = id }

\* index in a flat list of the last set with this identifier
LastIndex(flat, id) ==
    CHOOSE i \in DOMAIN flat :
        /\ flat[i].item.identifier = id
        /\ \A j \in DOMAIN flat : flat[j].item.identifier = id => j <= i

\* the values the add_tile calls number base+1 .. base+n returned
Returned(base, n) == [k \in 1..n |-> placements[base + k].value]

\* the entries of the emitted document under this key
Entries(list, id) == { i \in DOMAIN list : list[i].key = id }

\* C11: when a floor set and a wall set carry the same identifier (and all
\* sources resolve) the compile is not rejected, and the emitted document
\* holds one entry for the floor set and one for the wall set, each with the
\* coordinates returned for its own tiles.
C11_NamespacePerFormat ==
    (SharedIds(module) # {} /\ ~HasMissingSource(module)) =>
        /\ pc = "done" => result \in {Ok} \cup IOErrors
        /\ (pc = "done" /\ result = Ok) =>
             LET doc == fs[module.out_tile_set_path].data[1]
                 ff == FlatFloorSets(module.floor_sources)
                 fw == FlatWallSets(module.wall_sources)
             IN  \A id \in SharedIds(module) :
                   /\ \E i \in Entries(doc.floor_sets, id) :
                        /\ Entries(doc.floor_sets, id) = {i}
                        /\ doc.floor_sets[i].value =
                             CompiledFloorSet(Returned(
                               (LastIndex(ff, id) - 1) * Len(FloorOffsets),
                               Len(FloorOffsets)))
                   /\ \E j \in Entries(doc.wall_sets, id) :
                        /\ Entries(doc.wall_sets, id) = {j}
                        /\ doc.wall_sets[j].value =
                             CompiledWallSet(Returned(
                               Len(ff) * Len(FloorOffsets)
                                 + (LastIndex(fw, id) - 1) * Len(WallOffsets),
                               Len(WallOffsets)))

\* a successful compile of a floor set and a wall set with one identifier
C11_Witness ==
    /\ pc = "done" /\ result = Ok
    /\ SharedIds(module) # {}

(***************************************************************************)
(* The cursor alone: a TileSetCursor for an atlas of `side` tiles per      *)
(* axis, as compile_tile_set_module creates it, and add_tile called on it  *)
(* any number of times, also after the atlas is full.                      *)
(***************************************************************************)
\* largest atlas side, in tiles
MaxSide == 2
\* calls made beyond the side * side that fit
MaxExtraCalls == 2

\* module.tile_size; a zero width or height is a value the document can hold
CursorTileSizes == { <<1, 1>>, <<2, 1>>, <<0, 1>>, <<1, 0>> }
\* the source tiles asked for
CursorTiles == { <<0, 0>>, <<1, 2>> }

\* the side, in tiles, of the atlas of cursor c
CursorSide(c) ==
    IF c.tile_size[1] > 0 THEN c.img.width \div c.tile_size[1]
    ELSE c.img.height \div c.tile_size[2]

CursorInit ==
    /\ \E side \in 1..MaxSide, ts \in CursorTileSizes :
         /\ module = Module(ts, <<>>, <<>>)
         /\ cursor = TileSetCursorNew(<<side * ts[1], side * ts[2]>>, ts)
    /\ pc = "cursor"
    /\ images = DeclaredSources
    /\ gi = 0 /\ si = 0
    /\ image \in DeclaredSources
    /\ floor_sets = <<>>
    /\ wall_sets = <<>>
    /\ placements = <<>>
    /\ result = Running
    /\ fs = [p \in OutPaths |-> Absent]
    /\ written = {}
    /\ run = 1
    /\ first = <<>>
    /\ sizing = NoSizing

\* cursor.add_tile(&mut image, tile_coordinates)
CallAddTile ==
    /\ pc = "cursor"
    /\ Len(placements) < CursorSide(cursor) * CursorSide(cursor) + MaxExtraCalls
    /\ \E tile_coordinates \in CursorTiles :
       \E r \in { AddTile(cursor, image, tile_coordinates) } :
         /\ cursor' = r.cursor
         /\ placements' = Append(placements, r.call)
    /\ UNCHANGED <<module, pc, images, gi, si, image, floor_sets, wall_sets,
                   result, fs, written, run, first>>
    /\ UNCHANGED sizing

CursorNext == CallAddTile

SpecCursor == CursorInit /\ [][CursorNext]_vars

PositiveTiles(c) == c.tile_size[1] >= 1 /\ c.tile_size[2] >= 1

\* C12: every add_tile call moves the cursor by one tile width along x;
\* when a further tile would then exceed the atlas width (x + tile width >
\* width) x becomes 0 and y grows by one tile height, otherwise y stays; the
\* dimensions of the atlas and the cursor's tile_size never change.
C12_CursorStep ==
    [][ pc = "cursor" =>
          LET x == cursor.loc[1] + cursor.tile_size[1]
          IN  /\ cursor'.loc =
                   IF x + cursor.tile_size[1] > cursor.img.width
                   THEN <<0, cursor.loc[2] + cursor.tile_size[2]>>
                   ELSE <<x, cursor.loc[2]>>
              /\ cursor'.img.width = cursor.img.width
              /\ cursor'.img.height = cursor.img.height
              /\ DOMAIN cursor'.img.px = DOMAIN cursor.img.px
              /\ cursor'.tile_size = cursor.tile_size ]_vars

\* a cursor that has just wrapped to the start of a new row
C12_Witness ==
    /\ pc = "cursor" /\ PositiveTiles(cursor)
    /\ placements # <<>>
    /\ cursor.loc[1] = 0 /\ cursor.loc[2] = cursor.tile_size[2]
    /\ cursor.img.width > cursor.tile_size[1]

\* (y, x) of position a comes before (y, x) of position b
RasterBefore(a, b) == a[2] < b[2] \/ (a[2] = b[2] /\ a[1] < b[1])

\* C13, as stated: over any sequence of add_tile calls the cursor position
\* strictly increases in raster order (lexicographic on (y, x)).
C13_RasterOrder ==
    [][ pc = "cursor" => RasterBefore(cursor.loc, cursor'.loc) ]_vars

\* C13, amended: when the tile width and the tile height are both at least
\* 1, the cursor position strictly increases in raster order with every
\* add_tile call, so the cursor never returns to a position it held before.
C13_RasterOrderPositiveTiles ==
    [][ (pc = "cursor" /\ PositiveTiles(cursor)) =>
            RasterBefore(cursor.loc, cursor'.loc) ]_vars

\* a cursor with tiles of positive size that has moved along a row and
\* then on to later rows
C13_Witness ==
    /\ pc = "cursor" /\ PositiveTiles(cursor)
    /\ Len(placements) >= 3
    /\ \E k \in DOMAIN placements : placements[k].at[1] > 0
    /\ cursor.loc[2] >= 2 * cursor.tile_size[2]

\* C14, as stated: on a cursor for an atlas of side S the first S * S calls
\* of add_tile succeed; every later call fails with "couldn't fit tile into
\* image" and writes no pixel.
C14_OverflowDetected ==
    [][ pc = "cursor" =>
          LET S == CursorSide(cursor)
              k == Len(placements')
          IN  /\ k <= S * S => placements'[k].ok
              /\ k > S * S => /\ ~placements'[k].ok
                              /\ cursor'.img = cursor.img ]_vars

\* C14, amended: when the tile width and the tile height are both at least
\* 1, the first S * S calls succeed and every later call fails with
\* "couldn't fit tile into image" and leaves the atlas as it was.
C14_OverflowDetectedPositiveTiles ==
    [][ (pc = "cursor" /\ PositiveTiles(cursor)) =>
          LET S == CursorSide(cursor)
              k == Len(placements')
          IN  /\ k <= S * S => placements'[k].ok
              /\ k > S * S => /\ ~placements'[k].ok
                              /\ cursor'.img = cursor.img ]_vars

\* a full atlas of positive-size tiles on which a further call has failed
C14_Witness ==
    /\ pc = "cursor" /\ PositiveTiles(cursor)
    /\ Len(placements) > CursorSide(cursor) * CursorSide(cursor)
    /\ ~placements[Len(placements)].ok
    /\ \A p \in DOMAIN cursor.img.px : cursor.img.px[p] # Blank

\* the atlas side, in tiles, for a module with the given numbers of sets
AtlasSide(floors, walls) ==
    ISqrt(TILES_IN_FLOOR_SET * floors + TILES_IN_WALL_SET * walls) + 1

\* C15: the atlas is (floor(sqrt(total_tiles)) + 1) * tile_size pixels on
\* each axis, total_tiles being 16 per floor set plus 13 per wall set of
\* the module; it has that size before the first tile is copied and keeps
\* it to the end of the compile.
C15_AtlasSize ==
    LET side == AtlasSide(Len(FlatFloorSets(module.floor_sources)),
                          Len(FlatWallSets(module.wall_sources)))
        width == side * module.tile_size[1]
        height == side * module.tile_size[2]
    IN  /\ (pc \in {"floors", "walls", "create_tile_set", "write_tile_set",
                    "create_image", "save_image"} \/ placements # <<>>)
             => cursor # NoCursor
        /\ cursor # NoCursor =>
             /\ cursor.img.width = width
             /\ cursor.img.height = height
             /\ DOMAIN cursor.img.px = (0..(width - 1)) \X (0..(height - 1))

\* a finished compile of a module with floor sets and wall sets
C15_Witness ==
    /\ pc = "done" /\ result = Ok
    /\ FlatFloorSets(module.floor_sources) # <<>>
    /\ FlatWallSets(module.wall_sources) # <<>>
    /\ Len(placements) >= TILES_IN_FLOOR_SET + TILES_IN_WALL_SET

\* the coordinates a compiled floor set / wall set holds
FloorCoordinates(c) ==
    { c.numpad[i] : i \in DOMAIN c.numpad }
      \cup { c.top_bottom[i] : i \in DOMAIN c.top_bottom }
      \cup { c.left_right[i] : i \in DOMAIN c.left_right }
      \cup { c.closed_center }

WallCoordinates(c) ==
    { c.circle[i] : i \in DOMAIN c.circle }
      \cup { c.center_point, c.wall }
      \cup { c.cross[i] : i \in DOMAIN c.cross }

\* every coordinate of the output coordinate map
StoredCoordinates ==
    UNION { FloorCoordinates(floor_sets[id]) : id \in DOMAIN floor_sets }
      \cup UNION { WallCoordinates(wall_sets[id]) : id \in DOMAIN wall_sets }

\* C17: a successful compile makes exactly num_tiles() placements: 16 for
\* each floor set, stored as 9 + 3 + 3 + 1 coordinates, and 13 for each
\* wall set, stored as 6 + 1 + 1 + 5 coordinates.
C17_CountConsistent ==
    (pc = "done" /\ result = Ok) =>
        /\ Len(placements) = NumTiles(module)
        /\ Len(placements) =
             16 * Len(FlatFloorSets(module.floor_sources))
               + 13 * Len(FlatWallSets(module.wall_sources))
        /\ \A k \in DOMAIN placements : placements[k].ok
        /\ Len(FloorOffsets) = 16 /\ Len(WallOffsets) = 13
        /\ \A id \in DOMAIN floor_sets :
             /\ Len(floor_sets[id].numpad) = 9
             /\ Len(floor_sets[id].top_bottom) = 3
             /\ Len(floor_sets[id].left_right) = 3
             /\ DOMAIN floor_sets[id] =
                  {"numpad", "top_bottom", "left_right", "closed_center"}
        /\ \A id \in DOMAIN wall_sets :
             /\ Len(wall_sets[id].circle) = 6
             /\ Len(wall_sets[id].cross) = 5
             /\ DOMAIN wall_sets[id] =
                  {"circle", "center_point", "wall", "cross"}

\* a successful compile of two wall sets and one floor set
C17_Witness ==
    /\ pc = "done" /\ result = Ok
    /\ Len(FlatWallSets(module.wall_sources)) = 2
    /\ Len(FlatFloorSets(module.floor_sources)) = 1
    /\ DOMAIN wall_sets # {} /\ DOMAIN floor_sets # {}

\* C18: every coordinate stored by a successful compile is a multiple of
\* the tile width in x and of the tile height in y, and the tile rectangle
\* at it lies inside the atlas.
C18_GridAligned ==
    (pc = "done" /\ result = Ok) =>
        \A c \in StoredCoordinates :
            /\ c[1] % module.tile_size[1] = 0
            /\ c[2] % module.tile_size[2] = 0
            /\ c[1] >= 0 /\ c[1] + module.tile_size[1] <= cursor.img.width
            /\ c[2] >= 0 /\ c[2] + module.tile_size[2] <= cursor.img.height

\* a successful compile that stored coordinates of several rows
C18_Witness ==
    /\ pc = "done" /\ result = Ok
    /\ \E c \in StoredCoordinates : c[1] > 0
    /\ \E c \in StoredCoordinates : c[2] > module.tile_size[2]

Limb == 65536

\* low limbs 0..MaxLow and the MaxLow + 1 highest ones are tried
MaxLow == 2

HighLimbs == {0, 1, 2, 255, 256, 32767, 32768, 65533, 65534, 65535}
LowLimbs == (0..MaxLow) \cup ((Limb - 1 - MaxLow)..(Limb - 1))

\* overflow-checks on (panic) or off (wrap)
Builds == {"debug", "release"}

ErrMulOverflow == "attempt to multiply with overflow"

\* a < b
Less(a, b) == a[1] < b[1] \/ (a[1] = b[1] /\ a[2] < b[2])

\* r * r for r in 0..65536, exact: hi is 65536 or more when it exceeds u32
Square(r) ==
    LET rh == r \div 256
        rl == r % 256
        m == 2 * rh * rl
        low == (m % 256) * 256 + rl * rl
    IN  <<rh * rh + m \div 256 + low \div Limb, low % Limb>>

\* the u32 the wrapping multiplication leaves
Wrapped(product) == <<product[1] % Limb, product[2]>>

\* (n as f64).sqrt().floor() as u32: exact for every u32, the f64 holding
\* n without rounding and the root being correctly rounded
SqrtFloor(n) ==
    LET s == CHOOSE k \in 0..255 : k * k <= n[1] /\ (k + 1) * (k + 1) > n[1]
    IN  CHOOSE r \in (s * 256)..(s * 256 + 255) :
            ~Less(n, Square(r)) /\ Less(n, Square(r + 1))

RootInit ==
    /\ \E hi \in HighLimbs, lo \in LowLimbs, build \in Builds :
         sizing = [total_tiles |-> <<hi, lo>>, root |-> 0, build |-> build]
    /\ module = Module(CHOOSE ts \in TileSizes : TRUE, <<>>, <<>>)
    /\ pc = "root"
    /\ images = {}
    /\ gi = 0 /\ si = 0
    /\ image = ""
    /\ cursor = NoCursor
    /\ floor_sets = <<>>
    /\ wall_sets = <<>>
    /\ placements = <<>>
    /\ result = Running
    /\ fs = [p \in OutPaths |-> Absent]
    /\ written = {}
    /\ run = 1
    /\ first = <<>>

\* let root = (total_tiles as f64).sqrt().floor() as u32 + 1;
ComputeRoot ==
    /\ pc = "root"
    /\ sizing' = [sizing EXCEPT !.root = SqrtFloor(sizing.total_tiles) + 1]
    /\ pc' = "assert"
    /\ UNCHANGED <<module, images, gi, si, image, cursor, floor_sets, wall_sets,
                   placements, result, fs, written, run, first>>

\* assert!(root * root > total_tiles);
AssertRoot ==
    /\ pc = "assert"
    /\ LET product == Square(sizing.root)
       IN  IF product[1] >= Limb /\ sizing.build = "debug"
           THEN Return(ErrMulOverflow)
           ELSE IF Less(sizing.total_tiles, Wrapped(product))
                THEN pc' = "sized" /\ result' = result
                ELSE Return(AssertFailed)
    /\ UNCHANGED <<module, images, gi, si, image, cursor, floor_sets, wall_sets,
                   placements, fs, written, run, first, sizing>>

RootNext == ComputeRoot \/ AssertRoot

SpecRoot == RootInit /\ [][RootNext]_vars

\* C16: for every u32 value of total_tiles the product root * root stays
\* within u32 and is larger than total_tiles, so neither the multiplication
\* nor the assertion panics.
C16_AssertionHolds ==
    /\ result \notin {ErrMulOverflow, AssertFailed}
    /\ (sizing # NoSizing /\ pc # "root") =>
         /\ Square(sizing.root)[1] < Limb
         /\ Less(sizing.total_tiles, Square(sizing.root))

\* what does hold: below 65535 * 65535 the product fits and the assertion
\* passes; from there on root is 65536 and the product is 2^32
C16_HoldsBelowLimit ==
    (sizing # NoSizing /\ pc # "root") =>
        IF Less(sizing.total_tiles, <<65534, 1>>)
        THEN /\ Square(sizing.root)[1] < Limb
             /\ Less(sizing.total_tiles, Square(sizing.root))
             /\ result = Running
        ELSE /\ sizing.root = Limb
             /\ Square(sizing.root) = <<Limb, 0>>
             /\ pc = "done" => result = IF sizing.build = "debug"
                                        THEN ErrMulOverflow ELSE AssertFailed

====
